---------------------------- MODULE Spec2Model ----------------------------
(***************************************************************************)
(* make-bcache (src/make.c): formatting of cache and backing devices.      *)
(*                                                                         *)
(* The model follows make_bcache() after option parsing: the cache-device  *)
(* loop, the backing-device loop, and for every device either write_sb()   *)
(* (direct write) or write_sb_ioctl() (control channel), each a sequence   *)
(* of steps named by pc.  Every system call is a step whose result is      *)
(* chosen by the environment; exit(EXIT_FAILURE) is the state              *)
(* pc = "exit_failure".                                                    *)
(*                                                                         *)
(* A device's bytes are kept in two regions of Units units each: head is   *)
(* [0, SB_START), rec is the sizeof(struct cache_sb_disk) bytes at         *)
(* SB_START.  A unit holds "old" (foreign bytes), "bc" (a bcache           *)
(* superblock carrying bcache_magic), "zero" or "new" (bytes of the        *)
(* superblock built by this run).  pwrite() writes a prefix of a region.   *)
(*                                                                         *)
(* Spec starts at the cache-device loop with sbc filled in; SpecOptions    *)
(* starts after option parsing, at the bucket/block size check and the     *)
(* derivation of the block size; SpecCommon is write_sb_common alone, for  *)
(* every bucket size its 16-bit field can hold.                            *)
(***************************************************************************)
EXTENDS Integers, Sequences, FiniteSets

(* ------------------------------ bounds --------------------------------- *)
MaxBacking == 2
Units == 2
MaxSectors == 5000
MaxLog2 == 15

(* ------------------------- program constants --------------------------- *)
BCACHE_SB_VERSION_CDEV == 0
BCACHE_SB_VERSION_BDEV == 1
BCACHE_SB_VERSION_CDEV_WITH_UUID == 3
BCACHE_SB_VERSION_BDEV_WITH_OFFSET == 4
BDEV_DATA_START_DEFAULT == 16
CACHE_MODE_WRITETHROUGH == 0
CACHE_MODE_WRITEBACK == 1
EBUSY == 16
MinBuckets == 128
PollAttempts == 3
SbLastSector == 23
NoFd == -1
USHRT_MAX == 65535

(* ------------------------------ inputs --------------------------------- *)
\* -b: a power of two in sectors (hatoi_validate), default 1024
BucketSizes == {1, 32}
\* -o: at least BDEV_DATA_START_DEFAULT (make_bcache, case 'o')
DataOffsets == {BDEV_DATA_START_DEFAULT, 24}
\* -b, for write_sb_common on its own: the powers of two that fit the 16-bit
\* bucket_size of the superblock
AllBucketSizes == {b \in {2 ^ k : k \in 0..MaxLog2} : b <= USHRT_MAX}
\* -w: a power of two in sectors (hatoi_validate); 0 when -w is not given
BlockSizeOptions == {0, 1, 8}
\* what get_blocksize() may return: 512-byte and 4096-byte logical blocks
NativeBlockSizes == {1, 8}
\* what getblocks() may report: around the 128-bucket floor of every bucket size
DevSizes ==
    {MaxSectors} \cup
    {MinBuckets * b + d : b \in BucketSizes, d \in {-1, 0}}
\* sb.version values detail_dev() may hand back in *type
SbVersions ==
    {BCACHE_SB_VERSION_CDEV, BCACHE_SB_VERSION_BDEV,
     BCACHE_SB_VERSION_CDEV_WITH_UUID, BCACHE_SB_VERSION_BDEV_WITH_OFFSET, 2}
\* errno of a failed open(): EBUSY or another error (ENOENT = 2)
OpenErrnos == {EBUSY, 2}

Region(v) == [k \in 1..Units |-> v]

\* pwrite(fd, buf, len, off) returning n: the first n units of the region hold buf
PWrite(region, n, v) ==
    [k \in 1..Units |-> IF k <= n THEN v ELSE region[k]]

NoSb == [version |-> -1]

(* -------------------- struct cache_sb_disk, csum_set -------------------- *)
\* memset(sb, 0, sizeof(struct cache_sb))
ZeroSb ==
    [version |-> 0, data_offset |-> 0, cache_mode |-> 0, block_size |-> 0,
     bucket_size |-> 0, nbuckets |-> 0, nr_in_set |-> 0, nr_this_dev |-> 0,
     first_bucket |-> 0, discard |-> FALSE]

\* cpu_to_le16 / cpu_to_le64 as bytes in memory: the low byte first
LittleEndian(v, nbytes) == [k \in 1..nbytes |-> (v \div (256 ^ (k - 1))) % 256]

\* flags: BDEV_CACHE_MODE in the low bits of a backing device, CACHE_DISCARD
\* in bit 1 of a cache device
SbFlags(s) == s.cache_mode + (IF s.discard THEN 2 ELSE 0)

\* to_cache_sb_disk: the fields of the struct cache_sb, little-endian, in the
\* order of the on-disk layout
ToCacheSbDisk(s) ==
    LittleEndian(s.version, 2) \o LittleEndian(SbFlags(s), 2)
      \o LittleEndian(s.nbuckets, 2) \o LittleEndian(s.block_size, 2)
      \o LittleEndian(s.bucket_size, 2) \o LittleEndian(s.nr_in_set, 2)
      \o LittleEndian(s.nr_this_dev, 2) \o LittleEndian(s.data_offset, 2)
      \o LittleEndian(s.first_bucket, 2)

\* memset(&sb_disk, 0, sizeof(struct cache_sb_disk))
ZeroSbDisk ==
    [csum |-> 0, data |-> [k \in 1..Len(ToCacheSbDisk(ZeroSb)) |-> 0]]

\* csum_set(&sb_disk): a checksum of the bytes after the csum field, here a
\* position-weighted sum of them
CsumModulus == 65521
RECURSIVE WeightedSum(_, _)
WeightedSum(data, k) ==
    IF k = 0 THEN 0 ELSE k * data[k] + WeightedSum(data, k - 1)
CsumSet(data) == WeightedSum(data, Len(data)) % CsumModulus

\* faulty variant: the checksum is taken before to_cache_sb_disk has filled
\* the record
WithCsum_BeforeSerializing(d) == [d EXCEPT !.csum = CsumSet(ZeroSbDisk.data)]

\* sb_disk.csum = cpu_to_le64(csum_set(&sb_disk))
WithCsum(d) == [d EXCEPT !.csum = CsumSet(d.data)]

VARIABLES
    sbc,              \* struct sb_context (make_bcache's option values before it is filled)
    cli_data_offset,  \* make_bcache's local data_offset: the -o value, or the default
    force,            \* --force
    use_ioctl,        \* --ioctl
    cache_devices,    \* -C devices, in order
    backing_devices,  \* -B devices, in order
    disk,             \* disk[d]: the bytes of device d, [head, rec]
    pc,               \* position in make_bcache / write_sb / write_sb_ioctl
    i,                \* loop index of make_bcache
    dev,              \* device of the running, or last, write_sb / write_sb_ioctl
    bdev,             \* its bdev argument
    fd,               \* write_sb's fd: NoFd or the device it is open on
    open_errno,       \* errno left by write_sb's first open(), 0 if it succeeded
    read_magic,       \* sb_disk.magic, as pread() filled it, equals bcache_magic
    wipe_bcache,      \* write_sb's local wipe_bcache
    type,             \* write_sb's type
    poll_i,           \* write_sb's i in the re-open loop
    opened,           \* write_sb's opened
    dev_blocks,       \* what getblocks() returned for the current device
    sb,               \* the struct cache_sb being built, NoSb before
    sb_disk,          \* write_sb's struct cache_sb_disk, from its memset on
    zoned,            \* whether the current backing device is zoned
    ops,              \* what has been done to the current device, in order
    err,              \* the cause of exit(EXIT_FAILURE), "none" before
    warned,           \* the data_offset warning was printed for the current device
    submitted,        \* records handed to BCH_IOCTL_REGISTER_DEVICE: <<dev, sb>>
    finished          \* devices whose write_sb / write_sb_ioctl returned

vars == <<sbc, cli_data_offset, force, use_ioctl, cache_devices, backing_devices, disk, pc, i,
          dev, bdev, fd, open_errno, read_magic, wipe_bcache, type, poll_i, opened,
          dev_blocks, sb, sb_disk, zoned,
          ops, err, warned, submitted, finished>>

config == <<cli_data_offset, force, use_ioctl, cache_devices, backing_devices>>
locals == <<wipe_bcache, type, poll_i, opened, open_errno, read_magic>>
static == <<sbc, config, i, dev, bdev, zoned, warned, submitted, finished>>

\* the command line, the devices and the locals of make_bcache when it is
\* at start_pc, with block_size one of block_sizes and bucket_size one of
\* bucket_sizes
Start(start_pc, block_sizes, bucket_sizes) ==
    /\ sbc \in [block_size : block_sizes,
                bucket_size : bucket_sizes,
                writeback : BOOLEAN,
                discard : BOOLEAN,
                wipe_bcache : BOOLEAN,
                data_offset : DataOffsets]
    /\ cli_data_offset = sbc.data_offset
    /\ force \in BOOLEAN
    /\ use_ioctl \in BOOLEAN
    /\ \E nc \in 0..1, nb \in 0..MaxBacking :
         /\ nc + nb > 0
         /\ cache_devices = [k \in 1..nc |-> k]
         /\ backing_devices = [k \in 1..nb |-> nc + k]
         /\ disk \in [1..(nc + nb) -> {[head |-> Region("old"), rec |-> Region(v)] :
                                        v \in {"old", "bc"}}]
    /\ pc = start_pc
    /\ i = 0
    /\ dev = 0
    /\ bdev = FALSE
    /\ fd = NoFd
    /\ open_errno = 0
    /\ read_magic = FALSE
    /\ wipe_bcache = FALSE
    /\ type = 1
    /\ poll_i = 0
    /\ opened = FALSE
    /\ dev_blocks = 0
    /\ sb = NoSb
    /\ sb_disk = ZeroSbDisk
    /\ zoned = FALSE
    /\ ops = <<>>
    /\ err = "none"
    /\ warned = FALSE
    /\ submitted = <<>>
    /\ finished = <<>>

\* make_bcache at its first loop, sbc filled in, the block size one sector
Init == Start("cache_loop", {1}, BucketSizes)

\* make_bcache after option parsing, before its checks: sbc holds the option
\* values, block_size is 0 unless -w was given
InitOptions == Start("validate", BlockSizeOptions, BucketSizes)

\* before a call of write_sb_common, for every bucket size
InitCommon == Start("common", {1}, AllBucketSizes)

\* faulty variant: the error is reported and make_bcache goes on with its loop
Fatal_GoesOn(cause) ==
    /\ pc' = IF bdev THEN "backing_loop" ELSE "cache_loop"
    /\ err' = cause

\* exit(EXIT_FAILURE) after the message for cause
Fatal(cause) ==
    /\ pc' = "exit_failure"
    /\ err' = cause

Did(op) == ops' = Append(ops, op)

(* ----------------- check_data_offset_for_zoned_device ------------------ *)
\* zoned.c is outside src/: a device that is not zoned keeps the offset, a
\* zoned one gets an offset aligned to its zone size
ZoneSectors == 32
ZonedDataOffset(is_zoned, off) ==
    IF ~is_zoned THEN off
    ELSE IF off <= ZoneSectors THEN ZoneSectors
    ELSE ((off + ZoneSectors - 1) \div ZoneSectors) * ZoneSectors

(* ---------------------------- make_bcache ------------------------------ *)
\* max(a, b)
Max(a, b) == IF a > b THEN a ELSE b

\* if (bucket_size < block_size) exit(EXIT_FAILURE)
RejectsSizes(bucket_size, block_size) == bucket_size < block_size

\* the checks of make_bcache after option parsing, and if (!block_size)
Validate ==
    /\ pc = "validate"
    /\ IF RejectsSizes(sbc.bucket_size, sbc.block_size)
         THEN Fatal("bucket_lt_block")
         ELSE /\ pc' = IF sbc.block_size = 0 THEN "bs_cache" ELSE "cache_loop"
              /\ UNCHANGED err
    /\ UNCHANGED <<static, disk, fd, locals, dev_blocks, sb, sb_disk, ops>>

\* block_size = max(block_size, get_blocksize(path)): stat() may fail; a file
\* answers with st_blksize; a block device is opened O_RDONLY for
\* ioctl(BLKSSZGET), either may fail
GetBlocksize(path) ==
    \/ /\ Did("bs_stat_failed")
       /\ Fatal("bs_stat_error")
       /\ UNCHANGED sbc
    \/ /\ ops' = ops \o <<"bs_stat", "bs_open_failed">>
       /\ Fatal("bs_open_error")
       /\ UNCHANGED sbc
    \/ /\ ops' = ops \o <<"bs_stat", "bs_open", "bs_ioctl_failed">>
       /\ Fatal("bs_ioctl_error")
       /\ UNCHANGED sbc
    \/ \E size \in NativeBlockSizes :
         /\ ops' = ops \o <<"bs_stat">>
         /\ sbc' = [sbc EXCEPT !.block_size = Max(@, size)]
         /\ UNCHANGED <<pc, err>>
    \/ \E size \in NativeBlockSizes :
         /\ ops' = ops \o <<"bs_stat", "bs_open", "bs_ioctl", "bs_close">>
         /\ sbc' = [sbc EXCEPT !.block_size = Max(@, size)]
         /\ UNCHANGED <<pc, err>>

\* for (i = 0; i < ncache_devices; i++) block_size = max(block_size, get_blocksize(...))
BsCache ==
    /\ pc = "bs_cache"
    /\ \/ /\ i < Len(cache_devices)
          /\ GetBlocksize(cache_devices[i + 1])
          /\ i' = i + 1
       \/ /\ i >= Len(cache_devices)
          /\ i' = 0
          /\ pc' = "bs_backing"
          /\ UNCHANGED <<sbc, ops, err>>
    /\ UNCHANGED <<config, dev, bdev, zoned, warned, submitted, finished,
                   disk, fd, locals, dev_blocks, sb, sb_disk>>

\* for (i = 0; i < nbacking_devices; i++) block_size = max(...); then sbc is
\* filled in and the cache loop starts
BsBacking ==
    /\ pc = "bs_backing"
    /\ \/ /\ i < Len(backing_devices)
          /\ GetBlocksize(backing_devices[i + 1])
          /\ i' = i + 1
       \/ /\ i >= Len(backing_devices)
          /\ i' = 0
          /\ pc' = "cache_loop"
          /\ UNCHANGED <<sbc, ops, err>>
    /\ UNCHANGED <<config, dev, bdev, zoned, warned, submitted, finished,
                   disk, fd, locals, dev_blocks, sb, sb_disk>>

\* entry of write_sb(): its locals, wipe_bcache = sbc->wipe_bcache, type = 1
\* (opened is declared, without a value, where the re-open loop starts)
EnterWriteSb(d, is_bdev) ==
    /\ dev' = d
    /\ bdev' = is_bdev
    /\ pc' = "ws_open"
    /\ wipe_bcache' = sbc.wipe_bcache
    /\ fd' = NoFd
    /\ sb' = NoSb
    /\ sb_disk' = ZeroSbDisk
    /\ dev_blocks' = 0
    /\ ops' = <<>>
    /\ type' = 1
    /\ poll_i' = 0
    /\ opened' = FALSE
    /\ open_errno' = 0
    /\ read_magic' = FALSE

\* for (i = 0; i < ncache_devices; i++) write_sb(cache_devices[i], &sbc, false, force)
CacheLoop ==
    /\ pc = "cache_loop"
    /\ \/ /\ i < Len(cache_devices)
          /\ EnterWriteSb(cache_devices[i + 1], FALSE)
          /\ UNCHANGED <<i, sbc, zoned, warned>>
       \/ /\ i >= Len(cache_devices)
          /\ i' = 0
          /\ pc' = "backing_loop"
          /\ UNCHANGED <<dev, bdev, fd, sb, sb_disk, dev_blocks, ops, locals, sbc, zoned, warned>>
    /\ UNCHANGED <<config, disk, err, submitted, finished>>

\* for (i = 0; i < nbacking_devices; i++) {
\*   check_data_offset_for_zoned_device(backing_devices[i], &sbc.data_offset);
\*   if (use_ioctl) ... else write_sb(backing_devices[i], &sbc, true, force); }
BackingLoop ==
    /\ pc = "backing_loop"
    /\ \/ /\ i < Len(backing_devices)
          /\ use_ioctl
          /\ \E z \in BOOLEAN :
               /\ zoned' = z
               /\ sbc' = [sbc EXCEPT !.data_offset = ZonedDataOffset(z, sbc.data_offset)]
          /\ dev' = backing_devices[i + 1]
          /\ bdev' = TRUE
          /\ pc' = "bl_ioctl"
          /\ warned' = FALSE
          /\ sb' = NoSb
          /\ sb_disk' = ZeroSbDisk
          /\ dev_blocks' = 0
          /\ ops' = <<>>
          /\ wipe_bcache' = FALSE
          /\ type' = 1
          /\ poll_i' = 0
          /\ opened' = FALSE
          /\ open_errno' = 0
          /\ read_magic' = FALSE
          /\ UNCHANGED <<i, fd>>
       \/ /\ i < Len(backing_devices)
          /\ ~use_ioctl
          /\ \E z \in BOOLEAN :
               /\ zoned' = z
               /\ sbc' = [sbc EXCEPT !.data_offset = ZonedDataOffset(z, sbc.data_offset)]
          /\ warned' = FALSE
          /\ EnterWriteSb(backing_devices[i + 1], TRUE)
          /\ UNCHANGED i
       \/ /\ i >= Len(backing_devices)
          /\ pc' = "done"
          /\ UNCHANGED <<i, dev, bdev, fd, sb, sb_disk, dev_blocks, ops, locals, sbc, zoned, warned>>
    /\ UNCHANGED <<config, disk, err, submitted, finished>>

\* faulty variant: the offset is left as configured
ForcedDataOffset_Kept(off) == off

\* sbc.data_offset = 0;
ForcedDataOffset(off) == 0

\* if (sbc.data_offset != 0) "WARNING. data_offset must be 0 ..."
WarnsDataOffset(off) == off # 0

\* if (use_ioctl) { warning; sbc.data_offset = 0; write_sb_ioctl(...) }
BlIoctl ==
    /\ pc = "bl_ioctl"
    /\ warned' = WarnsDataOffset(sbc.data_offset)
    /\ sbc' = [sbc EXCEPT !.data_offset = ForcedDataOffset(sbc.data_offset)]
    /\ pc' = "wi_open"
    /\ UNCHANGED <<config, disk, i, dev, bdev, fd, locals, dev_blocks, sb, sb_disk, zoned, ops,
                   err, submitted, finished>>

\* write_sb() or write_sb_ioctl() returns to its loop
Return ==
    /\ finished' = Append(finished, dev)
    /\ i' = i + 1
    /\ pc' = IF bdev THEN "backing_loop" ELSE "cache_loop"
    /\ UNCHANGED dev

(* ------------------------------ write_sb ------------------------------- *)
\* faulty variant: errno is not looked at
EntersQuiescing_AnyErrno(e, f) == f

\* if ((errno == 16) && force)
EntersQuiescing(e, f) == e = EBUSY /\ f

\* fd = open(dev, O_RDWR|O_EXCL), and the branch on fd == -1
WsOpen ==
    /\ pc = "ws_open"
    /\ \/ /\ fd' = dev
          /\ pc' = "ws_pread"
          /\ Did("open")
          /\ UNCHANGED <<err, open_errno>>
       \/ \E e \in OpenErrnos :
            /\ fd' = NoFd
            /\ Did("open_failed")
            /\ open_errno' = e
            /\ IF EntersQuiescing(e, force)
                 THEN pc' = "ws_detail" /\ UNCHANGED err
                 ELSE Fatal("cant_open")
    /\ UNCHANGED <<static, disk, wipe_bcache, type, poll_i, opened, read_magic,
                   dev_blocks, sb, sb_disk>>

\* ret = detail_dev(dev, &bd, &cd, &type); if (ret != 0) exit
WsDetail ==
    /\ pc = "ws_detail"
    /\ Did("detail_dev")
    /\ \/ /\ Fatal("detail_failed")
          /\ UNCHANGED type
       \/ /\ type' \in SbVersions
          /\ pc' = "ws_stop"
          /\ UNCHANGED err
    /\ UNCHANGED <<static, disk, fd, wipe_bcache, poll_i, opened, open_errno,
                   read_magic, dev_blocks, sb, sb_disk>>

\* the request write_sb sends for a busy device of this type
QuiesceRequest(t) ==
    IF t = BCACHE_SB_VERSION_BDEV THEN "stop_backdev"
    ELSE IF t = BCACHE_SB_VERSION_CDEV \/ t = BCACHE_SB_VERSION_CDEV_WITH_UUID
         THEN "unregister_cset"
    ELSE "none"

\* stop_backdev / unregister_cset / "not a bcache device"; if (ret != 0) exit;
\* then int i; bool opened; (opened has no initial value)
WsStop ==
    /\ pc = "ws_stop"
    /\ \/ /\ QuiesceRequest(type) = "none"
          /\ Fatal("not_bcache")
          /\ UNCHANGED <<ops, poll_i, opened>>
       \/ /\ QuiesceRequest(type) # "none"
          /\ Did(QuiesceRequest(type))
          /\ \/ /\ Fatal("request_failed")
                /\ UNCHANGED <<poll_i, opened>>
             \/ /\ pc' = "ws_poll"
                /\ poll_i' = 0
                /\ opened' \in BOOLEAN
                /\ UNCHANGED err
    /\ UNCHANGED <<static, disk, fd, wipe_bcache, type, open_errno, read_magic,
                   dev_blocks, sb, sb_disk>>

\* for (i = 0; i < 3; i++) { sleep(3); fd = open(dev, O_RDWR|O_EXCL); ... }
WsPoll ==
    /\ pc = "ws_poll"
    /\ \/ /\ poll_i < PollAttempts
          /\ ops' = ops \o <<"sleep", "reopen">>
          /\ \/ /\ fd' = NoFd
                /\ poll_i' = poll_i + 1
                /\ UNCHANGED <<opened, pc>>
             \/ /\ fd' = dev
                /\ opened' = TRUE
                /\ pc' = "ws_polled"
                /\ UNCHANGED poll_i
       \/ /\ poll_i >= PollAttempts
          /\ pc' = "ws_polled"
          /\ UNCHANGED <<fd, ops, poll_i, opened>>
    /\ UNCHANGED <<static, disk, wipe_bcache, type, open_errno, read_magic,
                   dev_blocks, sb, sb_disk, err>>

\* if (!opened) { "Bcache devices has not completely closed" exit }
WsPolled ==
    /\ pc = "ws_polled"
    /\ IF ~opened THEN Fatal("still_busy")
                  ELSE pc' = "ws_pread" /\ UNCHANGED err
    /\ UNCHANGED <<static, disk, fd, locals, dev_blocks, sb, sb_disk, ops>>

\* faulty variant: --force does not imply wiping
WipeAllowed_NoForce(wipe, f) == wipe

\* if (force) wipe_bcache = true;
WipeAllowed(wipe, f) == wipe \/ f

\* !memcmp(sb_disk.magic, bcache_magic, 16): the magic lies in the record's first unit
HasMagic(d) == disk[d].rec[1] = "bc"

\* pread(fd, &sb_disk, sizeof(sb_disk), SB_START) and the check of the magic
WsPread ==
    /\ pc = "ws_pread"
    /\ wipe_bcache' = WipeAllowed(wipe_bcache, force)
    /\ \/ /\ Did("pread_failed")
          /\ Fatal("short_read")
          /\ UNCHANGED read_magic
       \/ /\ fd # NoFd
          /\ Did("pread")
          /\ read_magic' = HasMagic(dev)
          /\ IF read_magic'
               THEN IF wipe_bcache'
                      THEN pc' = "ws_erase" /\ UNCHANGED err
                      ELSE Fatal("already_bcache")
               ELSE pc' = "ws_probe" /\ UNCHANGED err
    /\ UNCHANGED <<static, disk, fd, type, poll_i, opened, open_errno, dev_blocks, sb, sb_disk>>

\* pwrite(fd, zeroes, sizeof(sb_disk), SB_START) != sizeof(sb_disk)
WsErase ==
    /\ pc = "ws_erase"
    /\ Did("erase")
    /\ \E n \in -1..Units :
         /\ disk' = [disk EXCEPT ![dev].rec = PWrite(@, n, "zero")]
         /\ IF n # Units THEN Fatal("erase_failed")
                         ELSE pc' = "ws_probe" /\ UNCHANGED err
    /\ UNCHANGED <<static, fd, locals, dev_blocks, sb, sb_disk>>

\* blkid_do_probe(): 0 a signature was found, 1 nothing found, -1 error
ProbeResults == {0, 1, -1}

\* faulty variant: the negation is lost
ProbeFoundSignature_Inverted(r) == r # 0

\* if (!blkid_do_probe(pr)) "already has a non-bcache superblock"
ProbeFoundSignature(r) == r = 0

\* blkid_new_probe, blkid_probe_set_device, blkid_probe_enable_partitions,
\* blkid_do_probe
WsProbe ==
    /\ pc = "ws_probe"
    /\ \/ /\ Did("probe_setup_failed")
          /\ Fatal("probe_setup")
       \/ \E r \in ProbeResults :
            /\ Did(IF r = 0 THEN "probe_found" ELSE "probe_clean")
            /\ IF ProbeFoundSignature(r)
                 THEN Fatal("foreign_signature")
                 ELSE pc' = "ws_build" /\ UNCHANGED err
    /\ UNCHANGED <<static, disk, fd, locals, dev_blocks, sb, sb_disk>>

(* --------------------------- write_sb_common --------------------------- *)
\* nbuckets = getblocks(fd) / sbc->bucket_size
NBuckets(blocks, bucket_size) == blocks \div bucket_size

\* faulty variant: <= in place of <
EnoughBuckets_OffByOne(n) == n > MinBuckets

\* if (sb->nbuckets < 1 << 7) exit
EnoughBuckets(n) == n >= MinBuckets

\* faulty variant: the version is never raised
SbVersion_NoBump(is_bdev, data_offset) ==
    IF is_bdev THEN BCACHE_SB_VERSION_BDEV ELSE BCACHE_SB_VERSION_CDEV

\* sb->version: bdev ? BDEV : CDEV, raised to BDEV_WITH_OFFSET for a data
\* offset other than the default
SbVersion(is_bdev, data_offset) ==
    IF ~is_bdev THEN BCACHE_SB_VERSION_CDEV
    ELSE IF data_offset # BDEV_DATA_START_DEFAULT
              /\ BCACHE_SB_VERSION_BDEV < BCACHE_SB_VERSION_BDEV_WITH_OFFSET
         THEN BCACHE_SB_VERSION_BDEV_WITH_OFFSET
    ELSE BCACHE_SB_VERSION_BDEV

\* sb->data_offset: stored only for a backing device with a non-default offset
SbDataOffset(is_bdev, data_offset) ==
    IF is_bdev /\ data_offset # BDEV_DATA_START_DEFAULT THEN data_offset ELSE 0

\* faulty variant: the zoned conversion is left out
SbCacheMode_NoDowngrade(writeback, is_zoned) ==
    IF writeback THEN CACHE_MODE_WRITEBACK ELSE CACHE_MODE_WRITETHROUGH

\* BDEV_CACHE_MODE after SET_BDEV_CACHE_MODE and the zoned conversion
SbCacheMode(writeback, is_zoned) ==
    LET mode == IF writeback THEN CACHE_MODE_WRITEBACK ELSE CACHE_MODE_WRITETHROUGH
    IN  IF is_zoned /\ mode = CACHE_MODE_WRITEBACK
          THEN CACHE_MODE_WRITETHROUGH ELSE mode

\* printf("Zoned device %s detected: convert to writethrough mode."): what
\* write_sb_common adds to the history of the device
CommonPrints(is_bdev, writeback, is_zoned) ==
    IF is_bdev /\ is_zoned
          /\ (IF writeback THEN CACHE_MODE_WRITEBACK ELSE CACHE_MODE_WRITETHROUGH)
                = CACHE_MODE_WRITEBACK
      THEN <<"zoned_notice">> ELSE <<>>

\* set_bucket_size(sb, bucket_size): the bucket size as stored in the superblock
SetBucketSize(bucket_size) == bucket_size

\* faulty variant: the + 1 is lost
FirstBucket_NoPlusOne(sb_bucket_size) == SbLastSector \div sb_bucket_size

\* sb->first_bucket = (23 / sb->bucket_size) + 1
FirstBucket(sb_bucket_size) == (SbLastSector \div sb_bucket_size) + 1

\* the struct cache_sb write_sb_common leaves behind (memset to 0 first)
WriteSbCommon(is_bdev, nbuckets, is_zoned) ==
    IF is_bdev
      THEN [version |-> SbVersion(TRUE, sbc.data_offset),
            data_offset |-> SbDataOffset(TRUE, sbc.data_offset),
            cache_mode |-> SbCacheMode(sbc.writeback, is_zoned),
            block_size |-> sbc.block_size,
            bucket_size |-> 0, nbuckets |-> 0, nr_in_set |-> 0,
            nr_this_dev |-> 0, first_bucket |-> 0, discard |-> FALSE]
      ELSE [version |-> SbVersion(FALSE, sbc.data_offset),
            data_offset |-> SbDataOffset(FALSE, sbc.data_offset),
            cache_mode |-> 0,
            block_size |-> sbc.block_size,
            bucket_size |-> SetBucketSize(sbc.bucket_size),
            nbuckets |-> nbuckets, nr_in_set |-> 1,
            nr_this_dev |-> 0,
            first_bucket |-> FirstBucket(SetBucketSize(sbc.bucket_size)),
            discard |-> sbc.discard]

\* write_sb_common exits on a cache device with too few buckets
CommonExits(is_bdev, nbuckets) == ~is_bdev /\ ~EnoughBuckets(nbuckets)

\* SB_IS_BDEV(sb)
SB_IS_BDEV(s) ==
    s.version \in {BCACHE_SB_VERSION_BDEV, BCACHE_SB_VERSION_BDEV_WITH_OFFSET}

(* -------------------------- write_sb, continued ------------------------ *)
\* device sizes around the 128-bucket floor of a bucket size
SizesAround(bucket_size) ==
    {MinBuckets * bucket_size + d : d \in {-1, 0, 1}} \cup {2 * MinBuckets * bucket_size}

\* write_sb_common(dev, &sb, sbc, bdev, nbuckets) on its own, as write_sb and
\* write_sb_ioctl call it
WriteSbCommonCall ==
    /\ pc = "common"
    /\ \E is_bdev \in BOOLEAN, is_zoned \in BOOLEAN,
          d \in DOMAIN disk, blocks \in SizesAround(sbc.bucket_size) :
         /\ dev' = d
         /\ bdev' = is_bdev
         /\ zoned' = is_zoned
         /\ dev_blocks' = blocks
         /\ IF CommonExits(is_bdev, NBuckets(blocks, sbc.bucket_size))
              THEN /\ Fatal("not_enough_buckets")
                   /\ UNCHANGED <<sb, ops>>
              ELSE /\ sb' = WriteSbCommon(is_bdev, NBuckets(blocks, sbc.bucket_size),
                                          is_zoned)
                   /\ ops' = ops \o CommonPrints(is_bdev, sbc.writeback, is_zoned)
                   /\ pc' = "common_done"
                   /\ UNCHANGED err
    /\ UNCHANGED <<sbc, config, i, warned, submitted, finished, disk, fd, locals,
                   sb_disk>>

\* faulty variant: the kind of superblock is not looked at
DiscardWanted_AnyDevice(s, discard) == discard

\* if (!SB_IS_BDEV(&sb)) if (discard) blkdiscard_all(dev, fd)
DiscardWanted(s, discard) == ~SB_IS_BDEV(s) /\ discard

\* nbuckets = getblocks(fd) / sbc->bucket_size; write_sb_common(...)
WsBuild ==
    /\ pc = "ws_build"
    /\ \/ /\ Did("getblocks_failed")
          /\ Fatal("stat_error")
          /\ UNCHANGED <<sb, sb_disk, dev_blocks>>
       \/ \E blocks \in DevSizes :
            /\ dev_blocks' = blocks
            /\ IF CommonExits(bdev, NBuckets(blocks, sbc.bucket_size))
                 THEN /\ Did("getblocks")
                      /\ Fatal("not_enough_buckets")
                      /\ UNCHANGED <<sb, sb_disk>>
                 ELSE /\ ops' = ops \o <<"getblocks">>
                                    \o CommonPrints(bdev, sbc.writeback, zoned)
                      /\ UNCHANGED sb_disk
                      /\ sb' = WriteSbCommon(bdev, NBuckets(blocks, sbc.bucket_size), zoned)
                      /\ pc' = IF DiscardWanted(sb', sbc.discard)
                                 THEN "ws_discard" ELSE "ws_zero"
                      /\ UNCHANGED err
    /\ UNCHANGED <<static, disk, fd, locals>>

\* if (!SB_IS_BDEV(&sb)) if (discard) blkdiscard_all(dev, fd): the result is
\* dropped; a discard that went through may leave the bytes or read back zero
WsDiscard ==
    /\ pc = "ws_discard"
    /\ \/ /\ Did("discard_failed")
          /\ UNCHANGED disk
       \/ /\ Did("discard")
          /\ \/ UNCHANGED disk
             \/ disk' = [disk EXCEPT ![dev] = [head |-> Region("zero"),
                                               rec |-> Region("zero")]]
    /\ pc' = "ws_zero"
    /\ UNCHANGED <<static, fd, locals, dev_blocks, sb, sb_disk, err>>

\* faulty variant: the result of pwrite is not compared with the size
WroteAll_Unchecked(n) == TRUE

\* a pwrite that returned n wrote the whole region
WroteAll(n) == n = Units

\* to_cache_sb_disk(&sb_disk, &sb); sb_disk.csum = ...; then
\* pwrite(fd, zeroes, SB_START, 0) != SB_START
WsZero ==
    /\ pc = "ws_zero"
    /\ Did("zero_head")
    /\ sb_disk' = WithCsum([sb_disk EXCEPT !.data = ToCacheSbDisk(sb)])
    /\ \E n \in -1..Units :
         /\ disk' = [disk EXCEPT ![dev].head = PWrite(@, n, "zero")]
         /\ IF WroteAll(n) THEN pc' = "ws_write" /\ UNCHANGED err
                           ELSE Fatal("write_error")
    /\ UNCHANGED <<static, fd, locals, dev_blocks, sb>>

\* pwrite(fd, &sb_disk, sizeof(sb_disk), SB_START) != sizeof(sb_disk)
WsWrite ==
    /\ pc = "ws_write"
    /\ Did("write_sb")
    /\ \E n \in -1..Units :
         /\ disk' = [disk EXCEPT ![dev].rec = PWrite(@, n, "new")]
         /\ IF WroteAll(n) THEN pc' = "ws_fsync" /\ UNCHANGED err
                           ELSE Fatal("write_error")
    /\ UNCHANGED <<static, fd, locals, dev_blocks, sb, sb_disk>>

\* fsync(fd): the return value is not looked at
WsFsync ==
    /\ pc = "ws_fsync"
    /\ \/ Did("fsync")
       \/ Did("fsync_failed")
    /\ pc' = "ws_close"
    /\ UNCHANGED <<static, disk, fd, locals, dev_blocks, sb, sb_disk, err>>

\* close(fd); return
WsClose ==
    /\ pc = "ws_close"
    /\ Did("close")
    /\ fd' = NoFd
    /\ Return
    /\ UNCHANGED <<sbc, config, disk, bdev, zoned, warned, submitted,
                   locals, dev_blocks, sb, sb_disk, err>>

(* ---------------------------- write_sb_ioctl --------------------------- *)
\* fd = open(dev, 0); dev_blocks = getblocks(fd); close(fd)
WiOpen ==
    /\ pc = "wi_open"
    /\ \/ /\ Did("open_failed")
          /\ Fatal("not_found")
          /\ UNCHANGED dev_blocks
       \/ /\ ops' = ops \o <<"open_ro", "getblocks_failed">>
          /\ Fatal("stat_error")
          /\ UNCHANGED dev_blocks
       \/ \E blocks \in DevSizes :
            /\ ops' = ops \o <<"open_ro", "getblocks", "close">>
            /\ dev_blocks' = blocks
            /\ pc' = "wi_stat"
            /\ UNCHANGED err
    /\ UNCHANGED <<static, disk, fd, locals, sb, sb_disk>>

\* faulty variant: the file type is not looked at
S_ISBLK_Any(kind) == TRUE

\* S_ISBLK(query_core.st_mode), for what stat() found: "stat_blk" a block
\* device, "stat_file" anything else
S_ISBLK(kind) == kind = "stat_blk"

\* stat(dev, &query_core); if (!S_ISBLK(query_core.st_mode)) exit
WiStat ==
    /\ pc = "wi_stat"
    /\ \/ /\ Did("stat_failed")
          /\ Fatal("stat_error")
       \/ \E kind \in {"stat_blk", "stat_file"} :
            /\ Did(kind)
            /\ IF S_ISBLK(kind)
                 THEN pc' = "wi_ctrl" /\ UNCHANGED err
                 ELSE Fatal("not_supported")
    /\ UNCHANGED <<static, disk, fd, locals, dev_blocks, sb, sb_disk>>

\* fd = open(CUSTOM_BCACHE_CTRL_DEV, 0); write_sb_common(...)
WiCtrl ==
    /\ pc = "wi_ctrl"
    /\ \/ /\ Did("ctrl_open_failed")
          /\ Fatal("ctrl_open")
          /\ UNCHANGED <<sb, sb_disk>>
       \/ /\ IF CommonExits(bdev, NBuckets(dev_blocks, sbc.bucket_size))
               THEN Did("ctrl_open") /\ Fatal("not_enough_buckets") /\ UNCHANGED <<sb, sb_disk>>
               ELSE /\ ops' = ops \o <<"ctrl_open">>
                                  \o CommonPrints(bdev, sbc.writeback, zoned)
                    /\ UNCHANGED sb_disk
                    /\ sb' = WriteSbCommon(bdev, NBuckets(dev_blocks, sbc.bucket_size), zoned)
                    /\ pc' = "wi_ioctl"
                    /\ UNCHANGED err
    /\ UNCHANGED <<static, disk, fd, locals, dev_blocks>>

\* ioctl(fd, BCH_IOCTL_REGISTER_DEVICE, &cmd) < 0; close(fd)
WiIoctl ==
    /\ pc = "wi_ioctl"
    /\ submitted' = Append(submitted, <<dev, sb>>)
    /\ UNCHANGED dev
    /\ \/ /\ ops' = ops \o <<"ioctl_failed", "ctrl_close">>
          /\ Fatal("ioctl_failed")
          /\ UNCHANGED <<i, finished>>
       \/ /\ ops' = ops \o <<"ioctl", "ctrl_close">>
          /\ Return
          /\ UNCHANGED err
    /\ UNCHANGED <<sbc, config, disk, bdev, zoned, warned, fd, locals, dev_blocks, sb, sb_disk>>

Next ==
    \/ CacheLoop
    \/ BackingLoop
    \/ BlIoctl
    \/ WsOpen
    \/ WsDetail
    \/ WsStop
    \/ WsPoll
    \/ WsPolled
    \/ WsPread
    \/ WsErase
    \/ WsProbe
    \/ WsBuild
    \/ WsDiscard
    \/ WsZero
    \/ WsWrite
    \/ WsFsync
    \/ WsClose
    \/ WiOpen
    \/ WiStat
    \/ WiCtrl
    \/ WiIoctl

Spec == Init /\ [][Next]_vars

\* make_bcache from its checks on
NextOptions ==
    \/ Validate
    \/ BsCache
    \/ BsBacking
    \/ Next

SpecOptions == InitOptions /\ [][NextOptions]_vars

\* write_sb_common alone
NextCommon == WriteSbCommonCall

SpecCommon == InitCommon /\ [][NextCommon]_vars

(* ======================================================================= *)
(*                               Properties                                *)
(* ======================================================================= *)
InOps(op) == \E k \in 1..Len(ops) : ops[k] = op
Count(op) == Cardinality({k \in 1..Len(ops) : ops[k] = op})
Before(a, b) ==
    \A k \in 1..Len(ops) : ops[k] = b => \E j \in 1..(k - 1) : ops[j] = a

\* the current (or last) device goes, or went, through write_sb
DirectPath == dev # 0 /\ ~(bdev /\ use_ioctl)

OldUnits == {"old", "bc"}
HasOld(d) == \E k \in 1..Units : disk[d].head[k] \in OldUnits \/ disk[d].rec[k] \in OldUnits
HasNew(d) == \E k \in 1..Units : disk[d].head[k] = "new" \/ disk[d].rec[k] = "new"

(* C1: write_sb on a device whose record at SB_START carries bcache_magic:  *)
(* without --wipe-bcache and without --force the attempt ends fatally       *)
(* ("Already a bcache device") and neither the head zeroing nor the         *)
(* superblock write is performed; with either flag the magic does not stop  *)
(* the attempt, which goes on to erase the old record and to the later      *)
(* steps.                                                                   *)
C1_MagicGuard ==
    (InOps("pread") /\ read_magic) =>
        IF ~sbc.wipe_bcache /\ ~force
          THEN /\ pc = "exit_failure"
               /\ err = "already_bcache"
               /\ ~InOps("erase")
               /\ ~InOps("zero_head")
               /\ ~InOps("write_sb")
          ELSE /\ err # "already_bcache"
               /\ pc = "ws_erase" \/ InOps("erase")

\* --force alone: the old bcache record was read and the new one got written
C1_Witness ==
    /\ read_magic
    /\ force
    /\ ~sbc.wipe_bcache
    /\ InOps("write_sb")
    /\ disk[dev].rec = Region("new")

(* C2: whatever --wipe-bcache and --force are, once blkid_do_probe reports  *)
(* a signature the attempt is fatal and neither the head zeroing nor the    *)
(* new superblock write happens: no unit of the device holds new bytes.     *)
C2_ForeignSignatureFatal ==
    InOps("probe_found") =>
        /\ pc = "exit_failure"
        /\ err = "foreign_signature"
        /\ ~InOps("zero_head")
        /\ ~InOps("write_sb")
        /\ ~HasNew(dev)

\* a forced run that erased an old bcache record and then met a foreign signature
C2_Witness ==
    /\ InOps("probe_found")
    /\ InOps("erase")
    /\ force
    /\ sbc.wipe_bcache

(* C3: in the re-open loop at most 3 attempts are made; an attempt that     *)
(* succeeds leads on to the signature check with the open handle; when all  *)
(* 3 fail the attempt always ends with the "still busy" error and never     *)
(* reaches the signature check or the write steps.                          *)
C3_PollOutcome ==
    /\ Count("reopen") <= PollAttempts
    /\ (InOps("reopen") /\ pc \notin {"ws_poll", "ws_polled"}) =>
          IF poll_i < PollAttempts
            THEN fd = dev \/ pc # "ws_pread"
            ELSE pc = "exit_failure" /\ err = "still_busy" /\ ~InOps("pread_failed")

(* C4: detail_dev, stop_backdev, unregister_cset and the re-open are        *)
(* issued only after the first open failed with EBUSY under --force; any    *)
(* other failure of that open is fatal at once, nothing else having been    *)
(* done.                                                                    *)
C4_QuiescingEntry ==
    (DirectPath /\ InOps("open_failed")) =>
        IF open_errno = EBUSY /\ force
          THEN pc = "ws_detail" \/ InOps("detail_dev")
          ELSE /\ pc = "exit_failure"
               /\ err = "cant_open"
               /\ ops = <<"open_failed">>

\* busy, but no --force
C4_Witness ==
    /\ DirectPath
    /\ open_errno = EBUSY
    /\ ~force
    /\ err = "cant_open"

\* the superblock versions of a backing device and of a cache-set member
BackingVersions == {BCACHE_SB_VERSION_BDEV, BCACHE_SB_VERSION_BDEV_WITH_OFFSET}
CacheVersions == {BCACHE_SB_VERSION_CDEV, BCACHE_SB_VERSION_CDEV_WITH_UUID}

(* C5: once detail_dev has classified the busy device, a backing device of  *)
(* either backing version has received exactly one stop request, a          *)
(* cache-set member exactly one unregister request, and anything else ends  *)
(* with "not a bcache device" and no request; a failed detail_dev or a      *)
(* failed request is fatal before any re-open.                              *)
C5_RequestByRole ==
    /\ (InOps("detail_dev") /\ err # "detail_failed"
            /\ pc \notin {"ws_detail", "ws_stop"}) =>
          IF type \in BackingVersions
            THEN Count("stop_backdev") = 1 /\ Count("unregister_cset") = 0
            ELSE IF type \in CacheVersions
              THEN Count("unregister_cset") = 1 /\ Count("stop_backdev") = 0
              ELSE /\ err = "not_bcache"
                   /\ Count("stop_backdev") = 0
                   /\ Count("unregister_cset") = 0
    /\ err \in {"detail_failed", "request_failed", "not_bcache"} =>
          pc = "exit_failure" /\ ~InOps("reopen")

(* C6: for a cache device, once getblocks has answered: a device of fewer   *)
(* than 128 x bucket_size sectors makes write_sb_common exit ("Not enough   *)
(* buckets") with no superblock; otherwise the superblock is built with     *)
(* nbuckets the integer quotient of the device size by the bucket size,     *)
(* nr_in_set 1 and nr_this_dev 0.                                           *)
C6_BucketFloor ==
    (DirectPath /\ ~bdev /\ InOps("getblocks")) =>
        IF dev_blocks < MinBuckets * sbc.bucket_size
          THEN /\ pc = "exit_failure"
               /\ err = "not_enough_buckets"
               /\ sb = NoSb
               /\ ~InOps("write_sb")
          ELSE /\ sb # NoSb
               /\ err # "not_enough_buckets"
               /\ sb.nbuckets * sbc.bucket_size <= dev_blocks
               /\ dev_blocks < (sb.nbuckets + 1) * sbc.bucket_size
               /\ sb.nr_in_set = 1
               /\ sb.nr_this_dev = 0

\* exactly 128 buckets of 32 sectors
C6_Witness ==
    /\ DirectPath
    /\ ~bdev
    /\ sbc.bucket_size = 32
    /\ dev_blocks = MinBuckets * 32
    /\ sb # NoSb
    /\ sb.nbuckets = MinBuckets

\* zero_head, write_sb, fsync (its result dropped), close: the end of ops, in order
EndsInOrder ==
    /\ Len(ops) >= 4
    /\ ops[Len(ops) - 3] = "zero_head"
    /\ ops[Len(ops) - 2] = "write_sb"
    /\ ops[Len(ops) - 1] \in {"fsync", "fsync_failed"}
    /\ ops[Len(ops)] = "close"
    /\ Count("zero_head") = 1
    /\ Count("write_sb") = 1

\* write_sb has returned for the device ops tells about
Succeeded ==
    /\ DirectPath
    /\ pc \in {"cache_loop", "backing_loop", "done"}
    /\ finished # <<>>
    /\ finished[Len(finished)] = dev

(* C7, as claimed: a successful format zeroes the head, writes the record,  *)
(* flushes and closes, in this order, the record being written only after   *)
(* a full zeroing; and from the zeroing on the reserved area never holds a  *)
(* mix of old and new bytes.                                                *)
C7_NoMixOfOldAndNew ==
    /\ Succeeded => EndsInOrder
    /\ InOps("write_sb") => disk[dev].head = Region("zero")
    /\ InOps("zero_head") => ~(HasOld(dev) /\ HasNew(dev))

(* C7, amended: a successful format zeroes the head [0, SB_START), writes   *)
(* the record at SB_START, calls fsync and closes, in this order; the       *)
(* record is written only after the zeroing wrote its full size, so the     *)
(* head is all zero whenever the record has been written to; the zeroing    *)
(* does not reach the record's own bytes, which hold a mix of new and       *)
(* earlier bytes only after a short record write, which is fatal; on        *)
(* success the head is all zero and the record is the complete new one.     *)
C7_ZeroThenWrite ==
    /\ Succeeded => /\ EndsInOrder
                    /\ disk[dev].head = Region("zero")
                    /\ disk[dev].rec = Region("new")
    /\ InOps("write_sb") => /\ disk[dev].head = Region("zero")
                            /\ Before("zero_head", "write_sb")
    /\ (InOps("zero_head") /\ HasNew(dev) /\ disk[dev].rec # Region("new")) =>
          pc = "exit_failure" /\ err = "write_error"

\* a backing device without an old bcache record, formatted with success
C7_Witness ==
    /\ Succeeded
    /\ bdev
    /\ ~read_magic
    /\ EndsInOrder
    /\ disk[dev].rec = Region("new")

(* C8: write_sb returns (success) only after the head zeroing, the record   *)
(* write and the flush all succeeded; a short read, a short write or a      *)
(* failed flush ends the attempt fatally.                                   *)
C8_SuccessMeansDurable ==
    /\ Succeeded => /\ disk[dev].head = Region("zero")
                    /\ disk[dev].rec = Region("new")
                    /\ InOps("fsync")
    /\ (InOps("pread_failed") \/ InOps("fsync_failed")) => pc = "exit_failure"
    /\ err \in {"short_read", "erase_failed", "write_error"} => pc = "exit_failure"

C10_VersionAndOffset ==
    sb # NoSb =>
        IF bdev
          THEN IF sbc.data_offset # BDEV_DATA_START_DEFAULT
                 THEN /\ sb.version = BCACHE_SB_VERSION_BDEV_WITH_OFFSET
                      /\ sb.data_offset = sbc.data_offset
                 ELSE /\ sb.version = BCACHE_SB_VERSION_BDEV
                      /\ sb.data_offset = 0
          ELSE /\ sb.version = BCACHE_SB_VERSION_CDEV
               /\ sb.data_offset = 0

\* -o 24 on the direct path
C10_Witness ==
    /\ sb # NoSb
    /\ bdev
    /\ ~use_ioctl
    /\ sb.version = BCACHE_SB_VERSION_BDEV_WITH_OFFSET
    /\ sb.data_offset = 24

(* C11: a backing superblock has cache mode writeback only if writeback was *)
(* requested and the device is not zoned; with writeback requested on a     *)
(* zoned device the mode is writethrough and the "convert to writethrough"  *)
(* notice was printed; without writeback requested the mode is writethrough *)
(* and no notice was printed.                                               *)
C11_ZonedDowngrade ==
    (sb # NoSb /\ bdev) =>
        /\ sb.cache_mode = CACHE_MODE_WRITEBACK => (sbc.writeback /\ ~zoned)
        /\ (sbc.writeback /\ zoned) =>
              /\ sb.cache_mode = CACHE_MODE_WRITETHROUGH
              /\ Count("zoned_notice") = 1
        /\ ~sbc.writeback =>
              /\ sb.cache_mode = CACHE_MODE_WRITETHROUGH
              /\ ~InOps("zoned_notice")

\* --writeback on a zoned backing device, written to the device
C11_Witness ==
    /\ bdev
    /\ sbc.writeback
    /\ zoned
    /\ sb # NoSb
    /\ sb.cache_mode = CACHE_MODE_WRITETHROUGH
    /\ InOps("zoned_notice")
    /\ disk[dev].rec = Region("new")

(* C12: every superblock built has a block size no larger than the bucket   *)
(* size of the run, also when the block size comes from get_blocksize();    *)
(* a bucket size below the block size is fatal with no device opened.       *)
C12_BucketNotBelowBlock ==
    /\ sb # NoSb => sbc.bucket_size >= sb.block_size
    /\ (\E k \in 1..Len(submitted) :
            sbc.bucket_size < submitted[k][2].block_size) = FALSE
    /\ err = "bucket_lt_block" =>
          /\ pc = "exit_failure"
          /\ ops = <<>>
          /\ fd = NoFd
          /\ finished = <<>>

\* the devices in the order make_bcache takes them
AllDevices == cache_devices \o backing_devices

\* write_sb or write_sb_ioctl is running, or has exited, for dev
InAttempt == pc \notin {"validate", "bs_cache", "bs_backing",
                        "cache_loop", "backing_loop", "done"}

\* no write has reached device d
Untouched(d) ==
    /\ disk[d].head = Region("old")
    /\ disk[d].rec \in {Region("old"), Region("bc")}

(* C13: the devices that returned are a prefix of the cache devices         *)
(* followed by the backing devices; the device of the running attempt is    *)
(* the next one, so a backing device is taken only when every cache device  *)
(* has returned; an attempt ends either in the list of returned devices or  *)
(* in exit(EXIT_FAILURE), never both; after exit(EXIT_FAILURE) no step is   *)
(* taken, the devices after the failed one are untouched and the devices    *)
(* formatted before keep their new superblock; no step changes a device     *)
(* other than the one of the running attempt.                               *)
C13_OneAtATime ==
    /\ [](/\ Len(finished) <= Len(AllDevices)
          /\ finished = SubSeq(AllDevices, 1, Len(finished))
          /\ (err # "none") = (pc = "exit_failure")
          /\ InAttempt =>
                /\ Len(finished) < Len(AllDevices)
                /\ dev = AllDevices[Len(finished) + 1]
                /\ bdev = (Len(finished) >= Len(cache_devices))
                /\ \A k \in (Len(finished) + 2)..Len(AllDevices) :
                      Untouched(AllDevices[k])
          /\ \A k \in 1..Len(finished) :
                (~use_ioctl \/ k <= Len(cache_devices)) =>
                    disk[finished[k]].rec = Region("new")
          /\ pc = "done" => finished = AllDevices)
    /\ [][/\ pc # "exit_failure"
          /\ \A d \in DOMAIN disk : d # dev' => disk'[d] = disk[d]
          /\ finished' # finished => (finished' = Append(finished, dev) /\ err' = "none")]_vars

\* the cache device is formatted, the first backing device failed in the
\* middle of its write, the second backing device was never opened
C13_Witness ==
    /\ pc = "exit_failure"
    /\ Len(cache_devices) = 1
    /\ Len(backing_devices) = 2
    /\ finished = cache_devices
    /\ disk[cache_devices[1]].rec = Region("new")
    /\ dev = backing_devices[1]
    /\ HasNew(dev)
    /\ Untouched(backing_devices[2])

\* the current (or last) device goes, or went, through write_sb_ioctl
IoctlPath == dev # 0 /\ bdev /\ use_ioctl

\* the calls that write to the device, or open it for writing
DeviceWrites == {"open", "reopen", "erase", "discard", "zero_head", "write_sb"}

\* the current device has been handed to BCH_IOCTL_REGISTER_DEVICE
Submitted == \E k \in 1..Len(submitted) : submitted[k][1] = dev

(* C14: in write_sb_ioctl the device is only opened read-only for           *)
(* getblocks: none of its bytes change and no writing call is made,         *)
(* whatever the outcome; the record is handed to BCH_IOCTL_REGISTER_DEVICE  *)
(* only after stat() has shown a block device and the control device has    *)
(* been opened; anything but a block device, a control device that does not *)
(* open, and a failed ioctl each end in exit(EXIT_FAILURE), the first two   *)
(* with nothing submitted.                                                  *)
C14_IoctlNeverWrites ==
    IoctlPath =>
        /\ Untouched(dev)
        /\ \A k \in 1..Len(ops) : ops[k] \notin DeviceWrites
        /\ fd = NoFd
        /\ Submitted =>
              /\ InOps("stat_blk")
              /\ InOps("ctrl_open")
              /\ InOps("ioctl") \/ InOps("ioctl_failed")
        /\ (InOps("ioctl") \/ InOps("ioctl_failed")) =>
              /\ Submitted
              /\ Before("stat_blk", "ioctl")
              /\ Before("stat_blk", "ioctl_failed")
        /\ InOps("stat_file") =>
              pc = "exit_failure" /\ err = "not_supported" /\ ~Submitted
        /\ InOps("ctrl_open_failed") =>
              pc = "exit_failure" /\ err = "ctrl_open" /\ ~Submitted
        /\ InOps("ioctl_failed") =>
              /\ pc = "exit_failure"
              /\ err = "ioctl_failed"
              /\ \A k \in 1..Len(finished) : finished[k] # dev

\* a backing device carrying an old bcache superblock, registered through
\* the control device: its bytes are as they were
C14_Witness ==
    /\ IoctlPath
    /\ InOps("ioctl")
    /\ Submitted
    /\ finished # <<>>
    /\ finished[Len(finished)] = dev
    /\ disk[dev].rec = Region("bc")
    /\ disk[dev].head = Region("old")

\* the steps of write_sb that read or write the device through fd
UsesHandle ==
    pc \in {"ws_pread", "ws_erase", "ws_probe", "ws_build", "ws_discard",
            "ws_zero", "ws_write", "ws_fsync", "ws_close"}

(* C15: in write_sb the descriptor from open(O_RDWR|O_EXCL) is held at      *)
(* every step that reads or writes the device; a return leaves it closed,   *)
(* fsync and close being the last two calls; and an attempt that ends in    *)
(* exit(EXIT_FAILURE) after bytes of the device were changed has called     *)
(* fsync and close before.                                                  *)
C15_HandleHeldAndFlushed ==
    DirectPath =>
        /\ UsesHandle => fd = dev
        /\ Succeeded =>
              /\ fd = NoFd
              /\ Len(ops) >= 2
              /\ ops[Len(ops) - 1] \in {"fsync", "fsync_failed"}
              /\ ops[Len(ops)] = "close"
        /\ (pc = "exit_failure" /\ ~Untouched(dev)) =>
              /\ InOps("fsync")
              /\ InOps("close")
              /\ fd = NoFd

(* C16: from the zeroing of the head on, and so when the record is handed   *)
(* to pwrite and afterwards, sb_disk holds the serialized fields of the     *)
(* superblock write_sb_common left behind and its csum is the checksum of   *)
(* exactly these bytes: the checksum is computed after to_cache_sb_disk and *)
(* nothing changes the record or the superblock between csum_set and the    *)
(* write.                                                                   *)
C16_ChecksumOfWrittenRecord ==
    (DirectPath /\ (pc \in {"ws_write", "ws_fsync", "ws_close"}
                     \/ InOps("zero_head"))) =>
        /\ sb = WriteSbCommon(bdev, NBuckets(dev_blocks, sbc.bucket_size), zoned)
        /\ sb_disk.data = ToCacheSbDisk(sb)
        /\ sb_disk.csum = CsumSet(sb_disk.data)

\* a cache device with discard, written in full
C16_Witness ==
    /\ Succeeded
    /\ ~bdev
    /\ sb.discard
    /\ sb.bucket_size = 32
    /\ disk[dev].rec = Region("new")
    /\ sb_disk.csum = CsumSet(ToCacheSbDisk(sb))
    /\ sb_disk.csum # 0

\* blkdiscard_all has been called for the current device
DiscardCalled == InOps("discard") \/ InOps("discard_failed")

(* C17: blkdiscard_all is called at most once per device and only in       *)
(* write_sb, for a cache device, with the discard flag set, after the       *)
(* superblock has been built and before the head is zeroed; whatever it     *)
(* returns, the next step is the zeroing of the head with the superblock,   *)
(* the descriptor and the error state as they were, and a fatal end after   *)
(* it can only be the write error of a later pwrite.                        *)
C17_DiscardBestEffort ==
    /\ [](/\ DiscardCalled =>
                /\ DirectPath
                /\ ~bdev
                /\ sbc.discard
                /\ sb # NoSb
                /\ Count("discard") + Count("discard_failed") = 1
                /\ Before("getblocks", "discard")
                /\ Before("getblocks", "discard_failed")
                /\ \A k \in 1..Len(ops) :
                      ops[k] = "zero_head" =>
                        \E j \in 1..(k - 1) : ops[j] \in {"discard", "discard_failed"}
                /\ pc = "exit_failure" => err = "write_error"
          /\ InOps("discard_failed") =>
                (Succeeded => disk[dev].rec = Region("new")))
    /\ [][pc = "ws_discard" =>
            /\ pc' = "ws_zero"
            /\ err' = err
            /\ sb' = sb
            /\ fd' = fd
            /\ DiscardCalled']_vars

\* the discard failed and the cache device was formatted all the same
C17_Witness ==
    /\ InOps("discard_failed")
    /\ Succeeded
    /\ ~bdev
    /\ sbc.discard
    /\ disk[dev].head = Region("zero")
    /\ disk[dev].rec = Region("new")

\* exit(EXIT_FAILURE) for what the device already holds, or for its size
ExistingStateErrors == {"already_bcache", "foreign_signature", "not_enough_buckets"}

(* C18: when write_sb ends with "Already a bcache device", with "already    *)
(* has a non-bcache superblock" or with "Not enough buckets", no byte of    *)
(* the device has been changed and no erase has been issued.                *)
C18_FatalLeavesDeviceAsFound ==
    (DirectPath /\ pc = "exit_failure" /\ err \in ExistingStateErrors) =>
        /\ Untouched(dev)
        /\ ~InOps("erase")

(* C19: the superblock of a backing device holds the data offset, and the   *)
(* version, that follow from the data offset given on the command line and  *)
(* from the device itself (zoned or not, written directly or registered     *)
(* through the control device), whatever backing devices came before it.    *)
C19_OffsetIndependentOfOrder ==
    (sb # NoSb /\ bdev) =>
        LET own == IF use_ioctl THEN ForcedDataOffset(ZonedDataOffset(zoned, cli_data_offset))
                                ELSE ZonedDataOffset(zoned, cli_data_offset)
        IN  /\ sb.data_offset = SbDataOffset(TRUE, own)
            /\ sb.version = SbVersion(TRUE, own)

(* C20: a cache superblock built for a bucket size of b sectors has         *)
(* first_bucket = floor(23 / b) + 1, so first_bucket * b >= 24 and          *)
(* first_bucket < nbuckets.                                                 *)
C20_FirstBucket ==
    (sb # NoSb /\ ~bdev) =>
        /\ sb.bucket_size = sbc.bucket_size
        /\ sb.first_bucket = (23 \div sbc.bucket_size) + 1
        /\ sb.first_bucket * sbc.bucket_size >= 24
        /\ sb.first_bucket < sb.nbuckets
        /\ sb.nbuckets >= 128

\* buckets of 8 sectors on a device of exactly 128 buckets: first_bucket 3
C20_Witness ==
    /\ sb # NoSb
    /\ ~bdev
    /\ sbc.bucket_size = 8
    /\ sb.first_bucket = 3
    /\ sb.nbuckets = 128
    /\ pc = "common_done"

=============================================================================
